---- MODULE Spec2Model ----
(***************************************************************************)
(* A model of the TaskFlow task store (src/js/taskModel.js, class          *)
(* TaskModel), of the list projection applyFiltersAndSort with the         *)
(* handlers that drive it, and of the JavaScript values they handle.       *)
(*                                                                         *)
(* JavaScript values are tagged records.  A scalar is [k, n, s]: k is the  *)
(* kind, n the numeric payload, s the text as a sequence of one-character  *)
(* strings.  The kind "isodate" is a string that holds the ISO rendering   *)
(* (Date.prototype.toISOString) of the millisecond count n; "nan" is the   *)
(* number NaN.  An array is [k |-> "array", a |-> items], an object is     *)
(* [k |-> "object", o |-> record]; a property the object lacks reads back  *)
(* as undefined (Get).  A task is the record of its properties.            *)
(***************************************************************************)
EXTENDS Integers, Sequences, FiniteSets, TLC

VARIABLES
  tasks,        \* TaskModel.tasks: the collection, index 1 is the front
  deletedTask,  \* TaskModel.deletedTask: Null or [task, index] (index 0-based)
  now,          \* the millisecond clock read by Date.now() and new Date()
  last,         \* the last store call: [op, id, arg, ret]
  prev,         \* the store call before it
  before,       \* the store as the last call found it: [tasks, deletedTask]
  calls,        \* the number of store calls made so far
  state,        \* main.js `state`: the filter, category, sort key and search query
  view,         \* the list the last refreshUI handed to UI.renderTasks
  stored,       \* localStorage[STORAGE_KEY]: Null or a text
  timers,       \* the timeouts set by the debounced saveTasks and not yet run or
                \* cleared: each [args, due]
  log,          \* the last saveTasks request, [args, at], and `owed`: the bursts of
                \* requests so far minus the writes so far
  undo          \* the undo notification: `shown` (it carries the class 'show'),
                \* `since` (the clock at the last showUndo) and `hides` (the instants
                \* at which the pending hide timeouts are due)

vars ==
  <<tasks, deletedTask, now, last, prev, before, calls, state, view, stored, timers,
    log, undo>>

(* ---- bounds ---- *)
MaxNow == 4     \* the clock stops ticking here
MaxCalls == 3   \* store calls in one run
MaxView == 3    \* tasks in a stored collection that the projection is run on
MaxEvents == 2  \* handler runs that call the store, in one run

(* ---- JavaScript values ---- *)
Undef == [k |-> "undefined", n |-> 0, s |-> <<>>]
Null == [k |-> "null", n |-> 0, s |-> <<>>]
NaN == [k |-> "nan", n |-> 0, s |-> <<>>]
Bool(b) == [k |-> "boolean", n |-> IF b THEN 1 ELSE 0, s |-> <<>>]
Num(i) == [k |-> "number", n |-> i, s |-> <<>>]
Str(chars) == [k |-> "string", n |-> 0, s |-> chars]
IsoStr(ms) == [k |-> "isodate", n |-> ms, s |-> <<>>]
Arr(items) == [k |-> "array", a |-> items]
Obj(rec) == [k |-> "object", o |-> rec]

True == Bool(TRUE)
False == Bool(FALSE)
EmptyStr == Str(<<>>)

medium == Str(<<"m", "e", "d", "i", "u", "m">>)
personal == Str(<<"p", "e", "r", "s", "o", "n", "a", "l">>)
high == Str(<<"h", "i", "g", "h">>)
low == Str(<<"l", "o", "w">>)
work == Str(<<"w", "o", "r", "k">>)

IsString(v) == v.k \in {"string", "isodate"}
IsArray(v) == v.k = "array"

\* ToBoolean: what `!!v`, `v || d` and `if (v)` test
Truthy(v) ==
  CASE v.k \in {"undefined", "null", "nan"} -> FALSE
    [] v.k = "boolean" -> v.n = 1
    [] v.k = "number" -> v.n # 0
    [] v.k = "string" -> Len(v.s) > 0
    [] OTHER -> TRUE

\* a || d
Or(v, d) == IF Truthy(v) THEN v ELSE d

\* v.name: undefined when the object has no such property, and on the numbers,
\* strings, booleans and arrays the model holds (null.name and undefined.name
\* throw: see Throws)
Get(v, name) ==
  IF v.k = "object" /\ name \in DOMAIN v.o THEN v.o[name] ELSE Undef

\* reading a property of v throws a TypeError
Throws(v) == v.k \in {"null", "undefined"}

\* a === b (arrays and objects compare by reference and are never ids here)
StrictEq(a, b) ==
  /\ a.k = b.k
  /\ a.k \notin {"nan", "array", "object"}
  /\ a = b

Digits == <<"0", "1", "2", "3", "4", "5", "6", "7", "8", "9">>
IsDigit(c) == \E d \in 1..10 : Digits[d] = c
DigitVal(c) == (CHOOSE d \in 1..10 : Digits[d] = c) - 1

RECURSIVE DigitsToNat(_)
DigitsToNat(chars) ==
  IF chars = <<>> THEN 0
  ELSE 10 * DigitsToNat(SubSeq(chars, 1, Len(chars) - 1)) + DigitVal(chars[Len(chars)])

RECURSIVE NatToDigits(_)
NatToDigits(i) ==
  IF i < 10 THEN <<Digits[i + 1]>>
  ELSE NatToDigits(i \div 10) \o <<Digits[(i % 10) + 1]>>

IsSpace(c) == c = " "

RECURSIVE TrimStart(_)
TrimStart(chars) ==
  IF chars # <<>> /\ IsSpace(chars[1]) THEN TrimStart(Tail(chars)) ELSE chars

RECURSIVE TrimEnd(_)
TrimEnd(chars) ==
  IF chars # <<>> /\ IsSpace(chars[Len(chars)])
  THEN TrimEnd(SubSeq(chars, 1, Len(chars) - 1))
  ELSE chars

\* String.prototype.trim on a string value
Trim(v) == IF v.k = "string" THEN Str(TrimEnd(TrimStart(v.s))) ELSE v

\* Number(v)
Number(v) ==
  CASE v.k = "number" -> v
    [] v.k = "boolean" -> Num(v.n)
    [] v.k = "null" -> Num(0)
    [] v.k = "string" ->
         LET t == TrimEnd(TrimStart(v.s))
         IN IF \A i \in 1..Len(t) : IsDigit(t[i]) THEN Num(DigitsToNat(t)) ELSE NaN
    [] v.k = "array" -> IF v.a = <<>> THEN Num(0) ELSE NaN
    [] OTHER -> NaN

\* String(v), for the values a task property can hold
String(v) ==
  CASE IsString(v) -> v
    [] v.k = "number" ->
         IF v.n >= 0 THEN Str(NatToDigits(v.n)) ELSE Str(<<"-">> \o NatToDigits(-v.n))
    [] v.k = "nan" -> Str(<<"N", "a", "N">>)
    [] v.k = "boolean" ->
         IF v.n = 1 THEN Str(<<"t", "r", "u", "e">>) ELSE Str(<<"f", "a", "l", "s", "e">>)
    [] v.k = "null" -> Str(<<"n", "u", "l", "l">>)
    [] v.k = "undefined" -> Str(<<"u", "n", "d", "e", "f", "i", "n", "e", "d">>)
    [] v.k = "array" -> IF v.a = <<>> THEN EmptyStr ELSE Str(<<"[", "]">>)
    [] OTHER -> Str(<<"[", "o", "b", "j", "e", "c", "t", " ", "O", "b", "j", "e", "c", "t", "]">>)

(* ---- sequences as JavaScript arrays (0-based indexes) ---- *)
RECURSIVE IndexFrom(_, _, _)
\* the 0-based index of the first item of seq at or after position i whose id
\* is strictly equal to id, or -1
IndexFrom(seq, id, i) ==
  IF i > Len(seq) THEN -1
  ELSE IF StrictEq(Get(seq[i], "id"), id) THEN i - 1
  ELSE IndexFrom(seq, id, i + 1)

\* this.tasks.findIndex(t => t.id === id)
IndexOfId(seq, id) == IndexFrom(seq, id, 1)

\* arr.splice(index, 1)
RemoveAt(seq, index) == SubSeq(seq, 1, index) \o SubSeq(seq, index + 2, Len(seq))

\* an insertion that loses x when the index is past the end
InsertAtOrDrop(seq, index, x) ==
  IF index > Len(seq) THEN seq
  ELSE SubSeq(seq, 1, index) \o <<x>> \o SubSeq(seq, index + 1, Len(seq))

\* arr.splice(index, 0, x): an index past the end inserts at the end
InsertAt(seq, index, x) ==
  LET at == IF index > Len(seq) THEN Len(seq) ELSE index
  IN SubSeq(seq, 1, at) \o <<x>> \o SubSeq(seq, at + 1, Len(seq))

(* ---- JSON ---- *)
\* A JSON text is the document it spells, [j |-> kind, ...], or Garbage, a text
\* that is no JSON at all.
Garbage == [j |-> "garbage"]

RECURSIVE ToJson(_)
\* the document JSON.stringify writes for v: NaN becomes null, an undefined
\* array item becomes null, an undefined property is left out
ToJson(v) ==
  CASE v.k \in {"null", "nan", "undefined"} -> [j |-> "null", n |-> 0, s |-> <<>>]
    [] v.k = "array" -> [j |-> "array", a |-> [i \in 1..Len(v.a) |-> ToJson(v.a[i])]]
    [] v.k = "object" ->
         [j |-> "object",
          o |-> [f \in {g \in DOMAIN v.o : v.o[g].k # "undefined"} |-> ToJson(v.o[f])]]
    [] OTHER -> [j |-> v.k, n |-> v.n, s |-> v.s]

RECURSIVE FromJson(_)
\* the value JSON.parse builds from a document
FromJson(d) ==
  CASE d.j = "array" -> Arr([i \in 1..Len(d.a) |-> FromJson(d.a[i])])
    [] d.j = "object" -> Obj([f \in DOMAIN d.o |-> FromJson(d.o[f])])
    [] OTHER -> [k |-> d.j, n |-> d.n, s |-> d.s]

\* JSON.stringify(v, null, 2)
JsonStringify(v) == ToJson(v)

\* JSON.parse(text): [threw, value]
JsonParse(text) ==
  IF text = Garbage THEN [threw |-> TRUE, value |-> Undef]
  ELSE [threw |-> FALSE, value |-> FromJson(text)]

(* ---- TaskModel ---- *)
\* the value of a destructured parameter with a default
Default(v, d) == IF v.k = "undefined" THEN d ELSE v

TrimmedTag(t) == Trim(String(t))

\* { ...task, ...patch }
Spread(task, patch) == Obj(patch.o @@ task.o)

\* a constructor that takes a value that is no array for the only task
constructorWraps(initialTasks) ==
  IF IsArray(initialTasks) THEN initialTasks.a ELSE <<initialTasks>>

\* constructor(initialTasks)
constructor(initialTasks) == IF IsArray(initialTasks) THEN initialTasks.a ELSE <<>>

\* the task object addTask builds from a draft at clock reading `at`
NewTask(draft, at) ==
  LET tags == Default(Get(draft, "tags"), Arr(<<>>))
  IN Obj([id |-> Num(at),
          text |-> Trim(String(Get(draft, "text"))),
          completed |-> False,
          priority |-> Default(Get(draft, "priority"), medium),
          category |-> Default(Get(draft, "category"), personal),
          dueDate |-> Or(Default(Get(draft, "dueDate"), Null), Null),
          tags |-> Arr(SelectSeq([i \in 1..Len(tags.a) |-> TrimmedTag(tags.a[i])], Truthy)),
          notes |-> EmptyStr,
          subtasks |-> Arr(<<>>),
          createdAt |-> IsoStr(at),
          completedAt |-> Null])

\* an addTask that pushes the new task at the end
addTaskAppends(ts, buf, draft, at) ==
  LET task == NewTask(draft, at)
  IN [tasks |-> ts \o <<task>>, deletedTask |-> buf, ret |-> task]

\* addTask(draft): this.tasks.unshift(task); [tasks, deletedTask, ret]
addTask(ts, buf, draft, at) ==
  LET task == NewTask(draft, at)
  IN [tasks |-> <<task>> \o ts, deletedTask |-> buf, ret |-> task]

\* updateTask(id, patch)
updateTask(ts, buf, id, patch) ==
  LET idx == IndexOfId(ts, id)
  IN IF idx = -1 THEN [tasks |-> ts, deletedTask |-> buf, ret |-> Null]
     ELSE LET updated == Spread(ts[idx + 1], patch)
          IN [tasks |-> [ts EXCEPT ![idx + 1] = updated],
              deletedTask |-> buf,
              ret |-> updated]

\* Toggled without the reset of completedAt when the task becomes active
ToggledKeepsStamp(task, at) ==
  LET completed == Bool(~Truthy(Get(task, "completed")))
  IN Obj([completed |-> completed,
          completedAt |-> IF Truthy(completed) THEN IsoStr(at) ELSE Get(task, "completedAt")]
         @@ task.o)

\* the two assignments of toggleTask on the task it found
Toggled(task, at) ==
  LET completed == Bool(~Truthy(Get(task, "completed")))
  IN Obj([completed |-> completed,
          completedAt |-> IF Truthy(completed) THEN IsoStr(at) ELSE Null] @@ task.o)

\* toggleTask(id)
toggleTask(ts, buf, id, at) ==
  LET idx == IndexOfId(ts, id)
  IN IF idx = -1 THEN [tasks |-> ts, deletedTask |-> buf, ret |-> Null]
     ELSE LET task == Toggled(ts[idx + 1], at)
          IN [tasks |-> [ts EXCEPT ![idx + 1] = task],
              deletedTask |-> buf,
              ret |-> task]

\* deleteTask that keeps an entry the buffer already holds
deleteTaskKeepsBuffer(ts, buf, id) ==
  LET idx == IndexOfId(ts, id)
  IN IF idx = -1 THEN [tasks |-> ts, deletedTask |-> buf, ret |-> Null]
     ELSE LET entry == IF buf # Null THEN buf ELSE [task |-> ts[idx + 1], index |-> idx]
          IN [tasks |-> RemoveAt(ts, idx), deletedTask |-> entry, ret |-> Obj(entry)]

\* deleteTask(id)
deleteTask(ts, buf, id) ==
  LET idx == IndexOfId(ts, id)
  IN IF idx = -1 THEN [tasks |-> ts, deletedTask |-> buf, ret |-> Null]
     ELSE LET entry == [task |-> ts[idx + 1], index |-> idx]
          IN [tasks |-> RemoveAt(ts, idx), deletedTask |-> entry, ret |-> Obj(entry)]

\* undoDelete that puts the task back at the front (unshift for splice)
undoDeleteAtFront(ts, buf) ==
  IF buf = Null THEN [tasks |-> ts, deletedTask |-> buf, ret |-> Null]
  ELSE [tasks |-> <<buf.task>> \o ts, deletedTask |-> Null, ret |-> buf.task]

\* undoDelete without `this.deletedTask = null`
undoDeleteKeepsBuffer(ts, buf) ==
  IF buf = Null THEN [tasks |-> ts, deletedTask |-> buf, ret |-> Null]
  ELSE [tasks |-> InsertAt(ts, buf.index, buf.task), deletedTask |-> buf, ret |-> buf.task]

\* undoDelete()
undoDelete(ts, buf) ==
  IF buf = Null THEN [tasks |-> ts, deletedTask |-> buf, ret |-> Null]
  ELSE [tasks |-> InsertAt(ts, buf.index, buf.task),
        deletedTask |-> Null,
        ret |-> buf.task]

\* a clearCompleted that also forgets the deleted task
clearCompletedDropsBuffer(ts, buf) ==
  [tasks |-> SelectSeq(ts, LAMBDA t : ~Truthy(Get(t, "completed"))),
   deletedTask |-> Null,
   ret |-> Undef]

\* clearCompleted()
clearCompleted(ts, buf) ==
  [tasks |-> SelectSeq(ts, LAMBDA t : ~Truthy(Get(t, "completed"))),
   deletedTask |-> buf,
   ret |-> Undef]

\* what a call hands back when a TypeError leaves it
Thrown == [k |-> "throw", n |-> 0, s |-> <<>>]

\* addSubtask(taskId, text): text.trim() is a TypeError on anything but a string,
\* task.subtasks.push on anything but an array
addSubtask(ts, buf, taskId, text, at) ==
  LET idx == IndexOfId(ts, taskId)
      unchanged == [tasks |-> ts, deletedTask |-> buf]
  IN IF idx = -1 THEN unchanged @@ [ret |-> Null]
     ELSE IF ~IsString(text) THEN unchanged @@ [ret |-> Thrown]
     ELSE IF ~Truthy(Trim(text)) THEN unchanged @@ [ret |-> Null]
     ELSE LET task == ts[idx + 1]
              subtasks == Get(task, "subtasks")
              subtask == Obj([id |-> Num(at), text |-> Trim(String(text)),
                              completed |-> False])
          IN IF ~IsArray(subtasks) THEN unchanged @@ [ret |-> Thrown]
             ELSE [tasks |-> [ts EXCEPT ![idx + 1] =
                                Obj([subtasks |-> Arr(Append(subtasks.a, subtask))]
                                    @@ task.o)],
                   deletedTask |-> buf,
                   ret |-> subtask]

\* the subtask toggleSubtask flips
ToggledSubtask(st) == Obj([completed |-> Bool(~Truthy(Get(st, "completed")))] @@ st.o)

\* a toggleSubtask that flips the first subtask when the id matches none
toggleSubtaskFirst(ts, buf, taskId, subtaskId) ==
  LET idx == IndexOfId(ts, taskId)
      unchanged == [tasks |-> ts, deletedTask |-> buf]
  IN IF idx = -1 THEN unchanged @@ [ret |-> Null]
     ELSE LET task == ts[idx + 1]
              subtasks == Get(task, "subtasks")
              found == IF IsArray(subtasks) THEN IndexOfId(subtasks.a, subtaskId) ELSE -1
              at == IF found = -1 THEN 0 ELSE found
          IN IF ~IsArray(subtasks) THEN unchanged @@ [ret |-> Thrown]
             ELSE IF subtasks.a = <<>> THEN unchanged @@ [ret |-> Null]
             ELSE LET st == ToggledSubtask(subtasks.a[at + 1])
                  IN [tasks |-> [ts EXCEPT ![idx + 1] =
                                   Obj([subtasks |->
                                          Arr([subtasks.a EXCEPT ![at + 1] = st])]
                                       @@ task.o)],
                      deletedTask |-> buf,
                      ret |-> st]

\* toggleSubtask(taskId, subtaskId): task.subtasks.find is a TypeError on anything
\* but an array, s.id on a null or undefined element the search comes to, and
\* st.completed = ... on a subtask that is not an object (class bodies are strict)
toggleSubtask(ts, buf, taskId, subtaskId) ==
  LET idx == IndexOfId(ts, taskId)
      unchanged == [tasks |-> ts, deletedTask |-> buf]
  IN IF idx = -1 THEN unchanged @@ [ret |-> Null]
     ELSE LET task == ts[idx + 1]
              subtasks == Get(task, "subtasks")
              found == IF IsArray(subtasks) THEN IndexOfId(subtasks.a, subtaskId) ELSE -1
              searched == IF found = -1 THEN Len(subtasks.a) ELSE found
          IN IF ~IsArray(subtasks) THEN unchanged @@ [ret |-> Thrown]
             ELSE IF \E i \in 1..searched : Throws(subtasks.a[i])
                  THEN unchanged @@ [ret |-> Thrown]
             ELSE IF found = -1 THEN unchanged @@ [ret |-> Null]
             ELSE IF subtasks.a[found + 1].k # "object" THEN unchanged @@ [ret |-> Thrown]
             ELSE LET st == ToggledSubtask(subtasks.a[found + 1])
                  IN [tasks |-> [ts EXCEPT ![idx + 1] =
                                   Obj([subtasks |->
                                          Arr([subtasks.a EXCEPT ![found + 1] = st])]
                                       @@ task.o)],
                      deletedTask |-> buf,
                      ret |-> st]

\* updateNotes(taskId, notes)
updateNotes(ts, buf, taskId, notes) ==
  LET idx == IndexOfId(ts, taskId)
  IN IF idx = -1 THEN [tasks |-> ts, deletedTask |-> buf, ret |-> Null]
     ELSE LET task == Obj([notes |-> String(notes)] @@ ts[idx + 1].o)
          IN [tasks |-> [ts EXCEPT ![idx + 1] = task],
              deletedTask |-> buf,
              ret |-> task]

\* new Date(v).getTime(), NaN for an invalid date (a string that is no date
\* rendering, undefined)
DateMs(v) ==
  CASE v.k \in {"isodate", "number", "boolean"} -> Num(v.n)
    [] v.k = "null" -> Num(0)
    [] OTHER -> NaN

(* A machine's clock and calendar: `hour` is the number of clock units in an    *)
(* hour and `zone` the hours local time is ahead of UTC.  The calendar is that *)
(* of 1970, a year of 365 days, which the clock does not leave.                *)
\* a machine on UTC with a millisecond clock
Utc == [hour |-> 60 * 60 * 1000, zone |-> 0]

\* the days of the year before each month starts
DaysBefore == <<0, 31, 59, 90, 120, 151, 181, 212, 243, 273, 304, 334>>

\* the local day (0-based, counted from 1 January) the instant `at` falls on
LocalDay(at, cal) == (at + cal.zone * cal.hour) \div (24 * cal.hour)

\* new Date(y, m, d).getTime(): the instant local day `day` starts at
LocalMidnight(day, cal) == day * 24 * cal.hour - cal.zone * cal.hour

\* the local day on which the month of local day `day` starts
FirstOfMonth(day) ==
  LET m == CHOOSE m \in 1..12 : DaysBefore[m] <= day /\ (m = 12 \/ day < DaysBefore[m + 1])
  IN DaysBefore[m]

\* new Date(v) >= start, which an invalid date never is
AtOrAfter(v, start) == DateMs(v).k # "nan" /\ DateMs(v).n >= start

\* this.tasks.filter(t => t.completed && new Date(t.completedAt) >= start).length
CompletedSince(ts, start) ==
  Len(SelectSeq(ts, LAMBDA t : /\ Truthy(Get(t, "completed"))
                               /\ AtOrAfter(Get(t, "completedAt"), start)))

\* statistics that count a task as completed when it carries a completedAt
getStatisticsByStamp(ts, at, cal) ==
  LET total == Len(ts)
      completed == Len(SelectSeq(ts, LAMBDA t : Truthy(Get(t, "completedAt"))))
  IN [total |-> total, completed |-> completed, active |-> total - completed,
      todayCompleted |-> CompletedSince(ts, LocalMidnight(LocalDay(at, cal), cal)),
      weekCompleted |-> CompletedSince(ts, at - 7 * 24 * cal.hour),
      monthCompleted |->
        CompletedSince(ts, LocalMidnight(FirstOfMonth(LocalDay(at, cal)), cal))]

\* statistics whose week starts at local midnight seven days back
getStatisticsWeekOfDays(ts, at, cal) ==
  LET total == Len(ts)
      completed == Len(SelectSeq(ts, LAMBDA t : Truthy(Get(t, "completed"))))
  IN [total |-> total, completed |-> completed, active |-> total - completed,
      todayCompleted |-> CompletedSince(ts, LocalMidnight(LocalDay(at, cal), cal)),
      weekCompleted |-> CompletedSince(ts, LocalMidnight(LocalDay(at, cal) - 7, cal)),
      monthCompleted |->
        CompletedSince(ts, LocalMidnight(FirstOfMonth(LocalDay(at, cal)), cal))]

\* getStatistics() called at the instant `at`: the counts
getStatistics(ts, at, cal) ==
  LET todayStart == LocalMidnight(LocalDay(at, cal), cal)
      weekStart == at - 7 * 24 * cal.hour
      monthStart == LocalMidnight(FirstOfMonth(LocalDay(at, cal)), cal)
      total == Len(ts)
      completed == Len(SelectSeq(ts, LAMBDA t : Truthy(Get(t, "completed"))))
  IN [total |-> total, completed |-> completed, active |-> total - completed,
      todayCompleted |-> CompletedSince(ts, todayStart),
      weekCompleted |-> CompletedSince(ts, weekStart),
      monthCompleted |-> CompletedSince(ts, monthStart)]

\* exportTasks()
exportTasks(ts) == JsonStringify(Arr(ts))

\* the object importTasks builds from the parsed item p; `fresh` is
\* Date.now() + Math.floor(Math.random() * 1000)
Coerced(p, at, fresh) ==
  Obj([id |-> Or(Number(Get(p, "id")), Num(fresh)),
       text |-> String(Or(Get(p, "text"), EmptyStr)),
       completed |-> Bool(Truthy(Get(p, "completed"))),
       priority |-> Or(Get(p, "priority"), medium),
       category |-> Or(Get(p, "category"), personal),
       dueDate |-> Or(Get(p, "dueDate"), Null),
       tags |-> IF IsArray(Get(p, "tags")) THEN Get(p, "tags") ELSE Arr(<<>>),
       notes |-> Or(Get(p, "notes"), EmptyStr),
       subtasks |-> IF IsArray(Get(p, "subtasks")) THEN Get(p, "subtasks") ELSE Arr(<<>>),
       createdAt |-> Or(Get(p, "createdAt"), IsoStr(at)),
       completedAt |-> Or(Get(p, "completedAt"), Null)])

\* the number of items of the array a text spells, 0 for any other text
ItemCount(jsonString) ==
  LET parsed == JsonParse(jsonString)
  IN IF ~parsed.threw /\ IsArray(parsed.value) THEN Len(parsed.value.a) ELSE 0

\* importTasks that empties this.tasks before it parses
importTasksClearsFirst(ts, buf, jsonString, at, rnd) ==
  LET parsed == JsonParse(jsonString)
      failed == [tasks |-> <<>>, deletedTask |-> buf, ret |-> False]
  IN IF parsed.threw THEN failed
     ELSE IF ~IsArray(parsed.value) THEN failed
     ELSE IF \E i \in 1..Len(parsed.value.a) : Throws(parsed.value.a[i]) THEN failed
     ELSE [tasks |-> [i \in 1..Len(parsed.value.a) |->
                        Coerced(parsed.value.a[i], at, at + rnd[i])],
           deletedTask |-> buf,
           ret |-> True]

\* importTasks(jsonString); rnd[i] is the Math.random draw for item i
importTasks(ts, buf, jsonString, at, rnd) ==
  LET parsed == JsonParse(jsonString)
      failed == [tasks |-> ts, deletedTask |-> buf, ret |-> False]
  IN IF parsed.threw THEN failed
     ELSE IF ~IsArray(parsed.value) THEN failed
     ELSE IF \E i \in 1..Len(parsed.value.a) : Throws(parsed.value.a[i]) THEN failed
     ELSE [tasks |-> [i \in 1..Len(parsed.value.a) |->
                        Coerced(parsed.value.a[i], at, at + rnd[i])],
           deletedTask |-> buf,
           ret |-> True]

(* ---- Storage (src/js/notifications.js) ---- *)
\* Storage.loadTasks(): raw is what localStorage.getItem returned, null or a text
loadTasks(raw) ==
  IF raw = Null THEN Arr(<<>>)
  ELSE LET parsed == JsonParse(raw)
       IN IF parsed.threw THEN Arr(<<>>) ELSE parsed.value

(* ---- the projection (applyFiltersAndSort, src/js/taskModel.js) ---- *)
LowerCase ==
  <<"a", "b", "c", "d", "e", "f", "g", "h", "i", "j", "k", "l", "m",
    "n", "o", "p", "q", "r", "s", "t", "u", "v", "w", "x", "y", "z">>
UpperCase ==
  <<"A", "B", "C", "D", "E", "F", "G", "H", "I", "J", "K", "L", "M",
    "N", "O", "P", "Q", "R", "S", "T", "U", "V", "W", "X", "Y", "Z">>

\* the lower-case letter of each upper-case letter
LowerOf ==
  [c \in {UpperCase[i] : i \in 1..Len(UpperCase)} |->
     LowerCase[CHOOSE i \in 1..Len(UpperCase) : UpperCase[i] = c]]

IsUpper(c) == c \in DOMAIN LowerOf
LowerChar(c) == IF IsUpper(c) THEN LowerOf[c] ELSE c

\* a toLowerCase that leaves the text as it is
ToLowerCaseKeepsCase(v) == v

\* String.prototype.toLowerCase on a string value (no date rendering is searched)
ToLowerCase(v) ==
  IF v.k = "string" THEN Str([i \in 1..Len(v.s) |-> LowerChar(v.s[i])]) ELSE v

\* String.prototype.includes on the characters
Includes(hay, needle) ==
  \E k \in 0..(Len(hay) - Len(needle)) : SubSeq(hay, k + 1, k + Len(needle)) = needle

\* v.toLowerCase().includes(q)
LowerIncludes(v, q) == Includes(ToLowerCase(v).s, q.s)

\* the search predicate on task t for the lower-cased query q: "in", "out", or
\* "throw" when toLowerCase or some is called on a value that has no such method
SearchOf(t, q) ==
  LET text == Get(t, "text")
      notes == Get(t, "notes")
      tags == Get(t, "tags")
  IN IF ~IsString(text) THEN "throw"
     ELSE IF LowerIncludes(text, q) THEN "in"
     ELSE IF Truthy(notes) /\ ~IsString(notes) THEN "throw"
     ELSE IF Truthy(notes) /\ LowerIncludes(notes, q) THEN "in"
     ELSE IF ~Truthy(tags) THEN "out"
     ELSE IF ~IsArray(tags) THEN "throw"
     ELSE IF \E i \in 1..Len(tags.a) :
               /\ \A j \in 1..i : IsString(tags.a[j])
               /\ LowerIncludes(tags.a[i], q)
          THEN "in"
     ELSE IF \E i \in 1..Len(tags.a) : ~IsString(tags.a[i]) THEN "throw"
     ELSE "out"

\* the values of state.currentFilter, state.currentCategory and state.currentSort
all == Str(<<"a", "l", "l">>)
active == Str(<<"a", "c", "t", "i", "v", "e">>)
completed == Str(<<"c", "o", "m", "p", "l", "e", "t", "e", "d">>)
dateDesc == Str(<<"d", "a", "t", "e", "-", "d", "e", "s", "c">>)
dateAsc == Str(<<"d", "a", "t", "e", "-", "a", "s", "c">>)
priority == Str(<<"p", "r", "i", "o", "r", "i", "t", "y">>)
alphabetical == Str(<<"a", "l", "p", "h", "a", "b", "e", "t", "i", "c", "a", "l">>)
duedate == Str(<<"d", "u", "e", "d", "a", "t", "e">>)
category == Str(<<"c", "a", "t", "e", "g", "o", "r", "y">>)

\* const state = { ... }
DefaultState ==
  [currentFilter |-> all, currentCategory |-> all, currentSort |-> dateDesc,
   searchQuery |-> EmptyStr]

\* the status and category filters on one task
PassesFilters(t, st) ==
  /\ StrictEq(st.currentFilter, active) => ~Truthy(Get(t, "completed"))
  /\ StrictEq(st.currentFilter, completed) => Truthy(Get(t, "completed"))
  /\ ~StrictEq(st.currentCategory, all) => StrictEq(Get(t, "category"), st.currentCategory)

\* the list after the status filter, the category filter and the search
Filtered(ts, st) ==
  LET q == ToLowerCase(st.searchQuery)
  IN SelectSeq(ts, LAMBDA t :
       /\ PassesFilters(t, st)
       /\ Truthy(st.searchQuery) => SearchOf(t, q) = "in")

\* the search throws on one of the tasks the two filters let through
SearchThrows(ts, st) ==
  /\ Truthy(st.searchQuery)
  /\ \E i \in 1..Len(ts) :
       /\ PassesFilters(ts[i], st)
       /\ SearchOf(ts[i], ToLowerCase(st.searchQuery)) = "throw"

\* x - y on numbers
Minus(x, y) == IF x.k = "nan" \/ y.k = "nan" THEN NaN ELSE Num(x.n - y.n)

\* an order with low above medium
OrderOfLowFirst(p) ==
  CASE p = high -> Num(3)
    [] p = medium -> Num(1)
    [] p = low -> Num(2)
    [] OTHER -> NaN

\* order[p] as a number: const order = { high: 3, medium: 2, low: 1 }, and
\* undefined, NaN once subtracted, for any other p
OrderOf(p) ==
  CASE p = high -> Num(3)
    [] p = medium -> Num(2)
    [] p = low -> Num(1)
    [] OTHER -> NaN

\* the collation rank of a character: blanks, digits, letters; case is not primary
Collation == <<" ">> \o Digits \o LowerCase
RankOf ==
  [c \in {Collation[i] : i \in 1..Len(Collation)} |->
     CHOOSE i \in 1..Len(Collation) : Collation[i] = c]
CharRank(c) == IF LowerChar(c) \in DOMAIN RankOf THEN RankOf[LowerChar(c)] ELSE 0

RECURSIVE PrimaryCompare(_, _)
PrimaryCompare(x, y) ==
  IF x = <<>> /\ y = <<>> THEN 0
  ELSE IF x = <<>> THEN -1
  ELSE IF y = <<>> THEN 1
  ELSE IF CharRank(x[1]) < CharRank(y[1]) THEN -1
  ELSE IF CharRank(x[1]) > CharRank(y[1]) THEN 1
  ELSE PrimaryCompare(Tail(x), Tail(y))

\* a.localeCompare(b) on strings, root collation: letters first, then lower case
\* before upper case at the first character that differs
LocaleCompare(a, b) ==
  LET x == a.s
      y == String(b).s
      primary == PrimaryCompare(x, y)
  IN IF primary # 0 THEN Num(primary)
     ELSE IF x = y THEN Num(0)
     ELSE LET i == CHOOSE i \in 1..Len(x) :
                     x[i] # y[i] /\ \A j \in 1..(i - 1) : x[j] = y[j]
          IN IF IsUpper(x[i]) THEN Num(1) ELSE Num(-1)

\* the duedate comparator without its second test
DueDateCompareNoGuard(a, b) ==
  IF ~Truthy(Get(a, "dueDate")) THEN Num(1)
  ELSE Minus(DateMs(Get(a, "dueDate")), DateMs(Get(b, "dueDate")))

\* the comparator of case 'duedate'
DueDateCompare(a, b) ==
  IF ~Truthy(Get(a, "dueDate")) THEN Num(1)
  ELSE IF ~Truthy(Get(b, "dueDate")) THEN Num(-1)
  ELSE Minus(DateMs(Get(a, "dueDate")), DateMs(Get(b, "dueDate")))

\* the comparator the switch picks for a sort key, applied to a and b
Compare(key, a, b) ==
  CASE key = dateDesc -> Minus(DateMs(Get(b, "createdAt")), DateMs(Get(a, "createdAt")))
    [] key = dateAsc -> Minus(DateMs(Get(a, "createdAt")), DateMs(Get(b, "createdAt")))
    [] key = priority -> Minus(OrderOf(Get(b, "priority")), OrderOf(Get(a, "priority")))
    [] key = alphabetical -> LocaleCompare(Get(a, "text"), Get(b, "text"))
    [] key = duedate -> DueDateCompare(a, b)
    [] key = category -> LocaleCompare(Get(a, "category"), Get(b, "category"))

SortKeys == {dateDesc, dateAsc, priority, alphabetical, duedate, category}

\* what Array.prototype.sort makes of the comparator's result: NaN counts as 0
Sign(v) == IF v.k = "nan" \/ v.n = 0 THEN 0 ELSE IF v.n < 0 THEN -1 ELSE 1

\* the arrangements of n items: p[i] is the input position of the i-th output item
Arrangements(n) == {p \in [1..n -> 1..n] : \A i, j \in 1..n : i # j => p[i] # p[j]}

\* the comparator's answers on a list: Answers(seq, key)[i][j] is the sign of
\* comparator(seq[i], seq[j])
Answers(seq, key) ==
  [i \in 1..Len(seq) |-> [j \in 1..Len(seq) |-> Sign(Compare(key, seq[i], seq[j]))]]

\* an arrangement agrees with the comparator's answers: where the two answers on a
\* pair are consistent the smaller item comes first and equal items keep their
\* input order; where they contradict each other the order of the pair is left to
\* the engine
Agrees(answers, p) ==
  \A i, j \in 1..Len(answers) :
    i < j =>
      LET ab == answers[p[i]][p[j]]
          ba == answers[p[j]][p[i]]
      IN ab = -ba => (ab < 0 \/ (ab = 0 /\ p[i] < p[j]))

\* localeCompare is called on a value that is not a string
CompareThrows(key, a) ==
  \/ key = alphabetical /\ ~IsString(Get(a, "text"))
  \/ key = category /\ ~IsString(Get(a, "category"))

\* out.sort(comparator): the arrangements the sort can end in (ECMAScript leaves
\* the order to the engine when the comparator is inconsistent), any arrangement
\* when none agrees with the comparator, the input order for an unknown key
SortOrders(seq, key) ==
  IF key \notin SortKeys THEN {[i \in 1..Len(seq) |-> i]}
  ELSE IF \E i \in 1..Len(seq) : CompareThrows(key, seq[i]) THEN Arrangements(Len(seq))
  ELSE LET answers == Answers(seq, key)
           agreeing == {p \in Arrangements(Len(seq)) : Agrees(answers, p)}
       IN IF agreeing = {} THEN Arrangements(Len(seq)) ELSE agreeing

\* applyFiltersAndSort(tasks) under `st`: the lists it can return, [threw, value];
\* which comparisons a sort makes is the engine's choice, so a comparator that can
\* throw may or may not
applyFiltersAndSort(ts, st) ==
  IF SearchThrows(ts, st) THEN {[threw |-> TRUE, value |-> <<>>]}
  ELSE LET out == Filtered(ts, st)
           key == st.currentSort
       IN {[threw |-> FALSE, value |-> [i \in 1..Len(out) |-> out[p[i]]]]
             : p \in SortOrders(out, key)}
          \cup (IF /\ key \in SortKeys
                   /\ Len(out) >= 2
                   /\ \E i \in 1..Len(out) : CompareThrows(key, out[i])
                THEN {[threw |-> TRUE, value |-> <<>>]}
                ELSE {})

(* ---- utils.js ---- *)
RECURSIVE SplitOnComma(_)
\* chars.split(',')
SplitOnComma(chars) ==
  IF \E i \in 1..Len(chars) : chars[i] = ","
  THEN LET i == CHOOSE i \in 1..Len(chars) :
                  chars[i] = "," /\ \A j \in 1..(i - 1) : chars[j] # ","
       IN <<Str(SubSeq(chars, 1, i - 1))>> \o SplitOnComma(SubSeq(chars, i + 1, Len(chars)))
  ELSE <<Str(chars)>>

\* tagsFromString(tagString): split(',').map(s => s.trim()).filter(Boolean)
tagsFromString(tagString) ==
  LET parts == SplitOnComma(tagString.s)
  IN SelectSeq([i \in 1..Len(parts) |-> Trim(parts[i])], Truthy)

(* ---- the undo notification (UI.showUndo, UI.hideUndo) ---- *)
HideDelay == 5000

\* no notification and no hide timeout
NoUndo == [shown |-> FALSE, since |-> 0, hides |-> {}]

\* UI.showUndo(message), called at clock reading `at`
showUndo(u, at) == [u EXCEPT !.shown = TRUE, !.since = at]

\* UI.hideUndo()
hideUndo(u) == [u EXCEPT !.shown = FALSE]

\* setTimeout(() => UI.hideUndo(), 5000), called at clock reading `at`; nothing
\* clears the timeouts set before
HideLater(u, at) == [u EXCEPT !.hides = @ \cup {at + HideDelay}]

\* a hide timeout is due and has not run yet
HideDue == \E d \in undo.hides : now >= d

(* ---- the debounced Storage.saveTasks (src/js/notifications.js) ---- *)
\* the delay handed to debounce, in milliseconds
SaveDelay == 300

\* a debounce that sets the new timeout without clearing the old one
saveTasksKeepsTimeout(pending, ts, at) ==
  pending \cup {[args |-> ts, due |-> at + SaveDelay]}

\* Storage.saveTasks(tasks) at clock reading `at`: clearTimeout(t), then
\* t = setTimeout(() => fn(tasks), delay); the timeouts left pending
saveTasks(pending, ts, at) == {[args |-> ts, due |-> at + SaveDelay]}

\* the record of a request made at `at`: it opens a new burst when it comes the
\* delay or more after the request before it
Logged(lg, ts, at) ==
  [args |-> ts, at |-> at,
   owed |-> IF at - lg.at >= SaveDelay THEN lg.owed + 1 ELSE lg.owed]

\* a write that stores an empty collection
WrittenEmpty(ts) == JsonStringify(Arr(<<>>))

\* the body of the debounced function: localStorage.setItem(STORAGE_KEY,
\* JSON.stringify(tasks))
Written(ts) == JsonStringify(Arr(ts))

(* ---- inputs ---- *)
\* the values drawn for Math.floor(Math.random() * 1000)
RandomDraws == {0, 1}

\* arguments of addTask: text alone; every property given; empty category and date
Drafts ==
  {Obj([text |-> Str(<<" ", "a", " ">>)]),
   Obj([text |-> Str(<<"b">>), priority |-> high, category |-> work,
        dueDate |-> IsoStr(MaxNow), tags |-> Arr(<<Str(<<" ", "x">>), Str(<<" ">>)>>)]),
   Obj([text |-> Str(<<"c">>), priority |-> low, category |-> EmptyStr,
        dueDate |-> EmptyStr, tags |-> Arr(<<>>)])}

\* arguments of updateTask
Patches ==
  {Obj([text |-> Str(<<"z">>)]),
   Obj([completed |-> True]),
   Obj([id |-> Num(1), createdAt |-> IsoStr(1)])}

\* an id no task carries
AbsentId == Num(0)

\* the collection an earlier session saved: a completed task over an active one
SavedTasks ==
  <<Toggled(NewTask(Obj([text |-> Str(<<"s">>), priority |-> high]), 2), 2),
    NewTask(Obj([text |-> Str(<<"r">>)]), 1)>>

\* what localStorage holds at startup
StoredBlobs ==
  {Null, Garbage, JsonStringify(Obj([tasks |-> Arr(<<>>)])), JsonStringify(Arr(SavedTasks)),
   JsonStringify(Null), JsonStringify(Num(7))}

\* what localStorage holds at the startup of a session that goes on to call the
\* store: nothing, or the saved collection
SessionBlobs == {Null, JsonStringify(Arr(SavedTasks))}

\* texts handed to importTasks
ImportTexts ==
  {Garbage,
   JsonStringify(Obj([id |-> Num(1)])),
   JsonStringify(Arr(<<Null>>)),
   JsonStringify(Arr(<<Num(1)>>)),
   JsonStringify(Arr(<<Obj([id |-> Num(1), text |-> Str(<<"i">>), completed |-> True])>>)),
   JsonStringify(Arr(<<Obj([id |-> Str(<<"2">>), text |-> Num(1), tags |-> Str(<<"t">>),
                            completedAt |-> IsoStr(1)]),
                       Str(<<"x">>)>>))}

\* a draft whose text is empty once trimmed
BlankDrafts == {Obj([text |-> Str(<<" ", " ">>)])}

\* texts handed to addSubtask: a text, blanks, a number
SubtaskTexts == {Str(<<" ", "q">>), Str(<<" ">>), Num(7)}

\* notes handed to updateNotes
NotesTexts == {Str(<<"n">>), EmptyStr}

\* the tasks of the stored collections the projection is run on: every priority,
\* two of them high; two due dates; a completed task; three that hold "ab" in some
\* case, in the text, in the notes and in a tag
ViewPool ==
  {NewTask(Obj([text |-> Str(<<"A", "b">>), priority |-> high, category |-> work,
                dueDate |-> IsoStr(2), tags |-> Arr(<<Str(<<"x">>)>>)]), 1),
   updateNotes(<<Toggled(NewTask(Obj([text |-> Str(<<"c">>), priority |-> low]), 2), 3)>>,
               Null, Num(2), Str(<<"x", "a", "B">>)).ret,
   NewTask(Obj([text |-> Str(<<"d">>), category |-> work, dueDate |-> IsoStr(1),
                tags |-> Arr(<<Str(<<"y">>), Str(<<"A", "B">>)>>)]), 3),
   NewTask(Obj([text |-> Str(<<"e">>), priority |-> high]), 4)}

RECURSIVE ListsOf(_, _)
\* the lists of at most n distinct members of pool
ListsOf(pool, n) ==
  IF n = 0 THEN {<<>>}
  ELSE {<<>>} \cup UNION {{<<t>> \o rest : rest \in ListsOf(pool \ {t}, n - 1)} : t \in pool}

\* what localStorage holds at startup, for the projection
ViewBlobs == {JsonStringify(Arr(ts)) : ts \in ListsOf(ViewPool, MaxView)}

\* what the search box holds, and the filter tabs, category chips and sort options
Queries == {EmptyStr, Str(<<" ", "a", "B">>), Str(<<"e">>)}
Filters == {all, active, completed}
Categories == {all, work, personal}

\* what the add form holds when the add button is clicked: text alone; every
\* field filled; blanks
Forms ==
  {[text |-> Str(<<" ", "a">>), priority |-> medium, category |-> personal,
    dueDate |-> EmptyStr, tags |-> EmptyStr],
   [text |-> Str(<<"b">>), priority |-> high, category |-> work,
    dueDate |-> IsoStr(2), tags |-> Str(<<" ", "x", ",", " ", ",", "y">>)],
   [text |-> Str(<<" ", " ">>), priority |-> low, category |-> personal,
    dueDate |-> EmptyStr, tags |-> EmptyStr]}

\* what the inline edit input holds when it loses the focus
EditTexts == {Str(<<"z", " ">>), Str(<<" ">>)}

\* what a subtask input holds when its button is clicked
SubtaskInputs == {Str(<<" ", "q">>), Str(<<" ">>)}

IdsOf(ts) == {Get(ts[i], "id") : i \in 1..Len(ts)}

\* the ids of the subtasks of every task
SubtaskIdsOf(ts) ==
  UNION {IF IsArray(Get(ts[i], "subtasks")) THEN IdsOf(Get(ts[i], "subtasks").a) ELSE {}
           : i \in 1..Len(ts)}

(* ---- the state machine ---- *)
NoCall == [op |-> "none", id |-> Undef, arg |-> Undef, ret |-> Undef]

Init ==
  /\ \E raw \in SessionBlobs : stored = raw /\ tasks = constructor(loadTasks(raw))
  /\ deletedTask = Null
  /\ now = 3
  /\ last = NoCall
  /\ prev = NoCall
  /\ before = [tasks |-> tasks, deletedTask |-> Null]
  /\ calls = 0
  /\ state = DefaultState
  /\ \E out \in applyFiltersAndSort(tasks, state) :
       /\ view = out.value
       /\ timers = IF out.threw THEN {} ELSE saveTasks({}, tasks, now)
       /\ log = [args |-> tasks, at |-> now, owed |-> Cardinality(timers)]
  /\ undo = NoUndo

\* the store after a call, and the record of the call
Called(op, id, arg, r) ==
  /\ calls < MaxCalls
  /\ calls' = calls + 1
  /\ tasks' = r.tasks
  /\ deletedTask' = r.deletedTask
  /\ last' = [op |-> op, id |-> id, arg |-> arg, ret |-> r.ret]
  /\ prev' = last
  /\ before' = [tasks |-> tasks, deletedTask |-> deletedTask]
  /\ UNCHANGED <<now, state, view, stored, timers, log, undo>>

\* a millisecond passes
Tick ==
  /\ now < MaxNow
  /\ now' = now + 1
  /\ UNCHANGED <<tasks, deletedTask, last, prev, before, calls, state, view, stored,
                 timers, log, undo>>

AddTask ==
  /\ calls < MaxCalls
  /\ \E draft \in Drafts :
       Called("addTask", Undef, draft, addTask(tasks, deletedTask, draft, now))

UpdateTask ==
  \E id \in IdsOf(tasks) \cup {AbsentId}, patch \in Patches :
    Called("updateTask", id, patch, updateTask(tasks, deletedTask, id, patch))

ToggleTask ==
  \E id \in IdsOf(tasks) \cup {AbsentId} :
    Called("toggleTask", id, Undef, toggleTask(tasks, deletedTask, id, now))

DeleteTask ==
  \E id \in IdsOf(tasks) \cup {AbsentId} :
    Called("deleteTask", id, Undef, deleteTask(tasks, deletedTask, id))

UndoDelete ==
  /\ calls < MaxCalls
  /\ Called("undoDelete", Undef, Undef, undoDelete(tasks, deletedTask))

ClearCompleted ==
  /\ calls < MaxCalls
  /\ Called("clearCompleted", Undef, Undef, clearCompleted(tasks, deletedTask))

ImportTasks ==
  \E text \in ImportTexts \cup {exportTasks(tasks)} :
    \E rnd \in [1..ItemCount(text) -> RandomDraws] :
      Called("importTasks", Undef, text, importTasks(tasks, deletedTask, text, now, rnd))

Next ==
  \/ Tick
  \/ AddTask
  \/ UpdateTask
  \/ ToggleTask
  \/ DeleteTask
  \/ UndoDelete
  \/ ClearCompleted
  \/ ImportTasks

Spec == Init /\ [][Next]_vars

\* the calls that fill, consume and bypass the undo buffer
NextUndo ==
  \/ Tick
  \/ AddTask
  \/ ToggleTask
  \/ DeleteTask
  \/ UndoDelete
  \/ ClearCompleted

SpecUndo == Init /\ [][NextUndo]_vars

\* addTask with a text that is empty once trimmed
AddTaskNoText ==
  /\ calls < MaxCalls
  /\ \E draft \in BlankDrafts :
       Called("addTask", Undef, draft, addTask(tasks, deletedTask, draft, now))

AddSubtask ==
  \E id \in IdsOf(tasks) \cup {AbsentId}, text \in SubtaskTexts :
    Called("addSubtask", id, text, addSubtask(tasks, deletedTask, id, text, now))

ToggleSubtask ==
  \E id \in IdsOf(tasks) \cup {AbsentId}, sid \in SubtaskIdsOf(tasks) \cup {AbsentId} :
    Called("toggleSubtask", id, sid, toggleSubtask(tasks, deletedTask, id, sid))

UpdateNotes ==
  \E id \in IdsOf(tasks) \cup {AbsentId}, notes \in NotesTexts :
    Called("updateNotes", id, notes, updateNotes(tasks, deletedTask, id, notes))

\* the calls that name a task, with the subtask and notes calls
NextDetail ==
  \/ Tick
  \/ AddTask
  \/ AddTaskNoText
  \/ UpdateTask
  \/ ToggleTask
  \/ DeleteTask
  \/ AddSubtask
  \/ ToggleSubtask
  \/ UpdateNotes

SpecDetail == Init /\ [][NextDetail]_vars

\* Storage.saveTasks(ts) called by a handler
\* a request that hands over the collection as the handler found it
SaveRequestedStale(ts) ==
  /\ timers' = saveTasks(timers, tasks, now)
  /\ log' = Logged(log, tasks, now)

SaveRequested(ts) ==
  /\ timers' = saveTasks(timers, ts, now)
  /\ log' = Logged(log, ts, now)

\* refreshUI() on the collection ts under st: the list goes to UI.renderTasks and
\* the collection to Storage.saveTasks; an exception in applyFiltersAndSort leaves
\* the rendered list and the timeouts as they were
Rendered(ts, st) ==
  \E out \in applyFiltersAndSort(ts, st) :
    IF out.threw THEN UNCHANGED <<view, timers, log>>
    ELSE view' = out.value /\ SaveRequested(ts)

\* a timeout is due: its callback runs before any other handler does
TimeoutDue == \E t \in timers : now >= t.due

\* refreshUI() once a handler has set `state`
RefreshUI ==
  /\ ~TimeoutDue
  /\ Rendered(tasks, state')
  /\ UNCHANGED <<tasks, deletedTask, now, last, prev, before, calls, stored, undo>>

\* the search input's handler
Search ==
  \E text \in Queries :
    /\ state' = [state EXCEPT !.searchQuery = Trim(text)]
    /\ RefreshUI

\* a filter tab's click handler
SetFilter ==
  \E f \in Filters :
    /\ state' = [state EXCEPT !.currentFilter = f]
    /\ RefreshUI

\* a category chip's click handler
SetCategory ==
  \E c \in Categories :
    /\ state' = [state EXCEPT !.currentCategory = c]
    /\ RefreshUI

\* the sort select's change handler
SetSort ==
  \E key \in SortKeys :
    /\ state' = [state EXCEPT !.currentSort = key]
    /\ RefreshUI

\* startup on one of the stored collections
InitView ==
  /\ \E raw \in ViewBlobs : stored = raw /\ tasks = constructor(loadTasks(raw))
  /\ deletedTask = Null
  /\ now = 3
  /\ last = NoCall
  /\ prev = NoCall
  /\ before = [tasks |-> tasks, deletedTask |-> Null]
  /\ calls = 0
  /\ state = DefaultState
  /\ \E out \in applyFiltersAndSort(tasks, state) :
       /\ view = out.value
       /\ timers = IF out.threw THEN {} ELSE saveTasks({}, tasks, now)
       /\ log = [args |-> tasks, at |-> now, owed |-> Cardinality(timers)]
  /\ undo = NoUndo

\* the handlers that change what the list shows
NextView ==
  \/ Search
  \/ SetFilter
  \/ SetCategory
  \/ SetSort

SpecView == InitView /\ [][NextView]_vars

(* ---- the handlers that change the collection (bindEvents) ---- *)
\* Number(el.dataset.id) of the rendered tasks
IdsShown == {Number(String(Get(view[i], "id"))) : i \in 1..Len(view)}

\* a handler made the store call `op` with result r; no handler runs while a
\* timeout is due
Handled(op, id, arg, r) ==
  /\ calls < MaxEvents
  /\ ~TimeoutDue
  /\ ~HideDue
  /\ calls' = calls + 1
  /\ tasks' = r.tasks
  /\ deletedTask' = r.deletedTask
  /\ last' = [op |-> op, id |-> id, arg |-> arg, ret |-> r.ret]
  /\ prev' = last
  /\ before' = [tasks |-> tasks, deletedTask |-> deletedTask]
  /\ UNCHANGED <<now, state, stored>>

\* the argument the add button's handler builds from the form
DraftOf(form) ==
  Obj([text |-> Trim(form.text), priority |-> form.priority, category |-> form.category,
       dueDate |-> Or(form.dueDate, Null),
       tags |-> Arr(tagsFromString(Or(form.tags, EmptyStr)))])

\* click on the add button: nothing happens on a text that is empty once trimmed
AddClick ==
  \E form \in Forms :
    IF ~Truthy(Trim(form.text)) THEN UNCHANGED vars
    ELSE /\ Handled("addTask", Undef, DraftOf(form),
                    addTask(tasks, deletedTask, DraftOf(form), now))
         /\ Rendered(tasks', state)
         /\ UNCHANGED undo

\* click on a task's checkbox
ToggleClick ==
  \E id \in IdsShown :
    /\ Handled("toggleTask", id, Undef, toggleTask(tasks, deletedTask, id, now))
    /\ Rendered(tasks', state)
    /\ UNCHANGED undo

\* click on a task's delete button: deleteTask, UI.showUndo, the timeout that
\* hides the notification, refreshUI()
DeleteClick ==
  \E id \in IdsShown :
    /\ Handled("deleteTask", id, Undef, deleteTask(tasks, deletedTask, id))
    /\ undo' = HideLater(showUndo(undo, now), now)
    /\ Rendered(tasks', state)

\* the inline edit input loses the focus: updateTask on a text that is not empty
\* and differs from the rendered one, refreshUI() in any case
EditSave ==
  \E i \in 1..Len(view), text \in EditTexts :
    LET id == Number(String(Get(view[i], "id")))
        newVal == Trim(text)
        patch == Obj([text |-> newVal])
    IN /\ IF Truthy(newVal) /\ newVal # Get(view[i], "text")
          THEN Handled("updateTask", id, patch, updateTask(tasks, deletedTask, id, patch))
          ELSE Handled("refreshUI", id, Undef,
                       [tasks |-> tasks, deletedTask |-> deletedTask, ret |-> Undef])
       /\ Rendered(tasks', state)
       /\ UNCHANGED undo

\* click on the clear button, confirmed
ClearClick ==
  /\ Handled("clearCompleted", Undef, Undef, clearCompleted(tasks, deletedTask))
  /\ Rendered(tasks', state)
  /\ UNCHANGED undo

\* a file is picked for import: refreshUI() only when importTasks returned true
ImportFile ==
  \E text \in ImportTexts :
    \E rnd \in [1..ItemCount(text) -> RandomDraws] :
      LET r == importTasks(tasks, deletedTask, text, now, rnd)
      IN /\ Handled("importTasks", Undef, text, r)
         /\ IF r.ret = True THEN Rendered(tasks', state)
            ELSE UNCHANGED <<view, timers, log>>
         /\ UNCHANGED undo

\* click on the undo button: undoDelete, UI.hideUndo, refreshUI()
UndoClick ==
  /\ Handled("undoDelete", Undef, Undef, undoDelete(tasks, deletedTask))
  /\ undo' = hideUndo(undo)
  /\ Rendered(tasks', state)

\* Ctrl/Cmd+Z: only when a deleted task is held
UndoKey ==
  /\ deletedTask # Null
  /\ Handled("undoDelete", Undef, Undef, undoDelete(tasks, deletedTask))
  /\ undo' = hideUndo(undo)
  /\ Rendered(tasks', state)

\* click on a task's add-subtask button: nothing happens on blanks
AddSubtaskClick ==
  \E id \in IdsShown, text \in SubtaskInputs :
    IF ~Truthy(Trim(text)) THEN UNCHANGED vars
    ELSE /\ Handled("addSubtask", id, text, addSubtask(tasks, deletedTask, id, text, now))
         /\ IF last'.ret = Thrown THEN UNCHANGED <<view, timers, log>>
            ELSE Rendered(tasks', state)
         /\ UNCHANGED undo

\* click on a subtask's checkbox
ToggleSubtaskClick ==
  \E i \in 1..Len(view) :
    \E sid \in IF IsArray(Get(view[i], "subtasks"))
               THEN IdsOf(Get(view[i], "subtasks").a) ELSE {} :
      LET id == Number(String(Get(view[i], "id")))
      IN /\ Handled("toggleSubtask", id, sid,
                    toggleSubtask(tasks, deletedTask, id, Number(String(sid))))
         /\ Rendered(tasks', state)
         /\ UNCHANGED undo

\* a notes textarea loses the focus: updateNotes, then Storage.saveTasks without
\* refreshUI()
NotesBlur ==
  \E id \in IdsShown, notes \in NotesTexts :
    /\ Handled("updateNotes", id, notes, updateNotes(tasks, deletedTask, id, notes))
    /\ SaveRequested(tasks')
    /\ UNCHANGED <<view, undo>>

\* the tasks reorderModelFromDOM finds for the rendered items, in their order
RECURSIVE FoundInOrder(_, _)
FoundInOrder(ts, items) ==
  IF items = <<>> THEN <<>>
  ELSE LET idx == IndexOfId(ts, Number(String(Get(items[1], "id"))))
       IN (IF idx = -1 THEN <<>> ELSE <<ts[idx + 1]>>) \o FoundInOrder(ts, Tail(items))

\* reorderModelFromDOM(): model.tasks becomes the tasks found for the rendered
\* items, unless none is found
reorderModelFromDOM(ts, items) ==
  LET newOrder == FoundInOrder(ts, items)
  IN IF Len(newOrder) > 0 THEN newOrder ELSE ts

\* the end of a drag: the dragged item sits where the last dragover put it (its
\* old place included), then reorderModelFromDOM() and Storage.saveTasks
DragEnd ==
  \E i, j \in 1..Len(view) :
    LET dom == InsertAt(RemoveAt(view, i - 1), j - 1, view[i])
        r == [tasks |-> reorderModelFromDOM(tasks, dom), deletedTask |-> deletedTask,
              ret |-> Undef]
    IN /\ Handled("reorderModelFromDOM", Undef, Arr(dom), r)
       /\ view' = dom
       /\ SaveRequested(tasks')
       /\ UNCHANGED undo

(* ---- time ---- *)
\* nothing happens until the first pending timeout is due, or is about to be
Sleep ==
  /\ timers # {}
  /\ ~TimeoutDue
  /\ \E t \in timers :
       /\ \A u \in timers : t.due <= u.due
       /\ now' \in {t.due - 1, t.due}
       /\ now' > now
  /\ UNCHANGED <<tasks, deletedTask, last, prev, before, calls, state, view, stored,
                 timers, log, undo>>

\* a due timeout runs: localStorage.setItem(STORAGE_KEY, JSON.stringify(tasks))
TimerFires ==
  \E t \in timers :
    /\ now >= t.due
    /\ timers' = timers \ {t}
    /\ stored' = Written(t.args)
    /\ log' = [log EXCEPT !.owed = @ - 1]
    /\ UNCHANGED <<tasks, deletedTask, now, last, prev, before, calls, state, view,
                   undo>>

\* startup on whatever localStorage holds
InitStartup ==
  /\ \E raw \in StoredBlobs : stored = raw /\ tasks = constructor(loadTasks(raw))
  /\ deletedTask = Null
  /\ now = 3
  /\ last = NoCall
  /\ prev = NoCall
  /\ before = [tasks |-> tasks, deletedTask |-> Null]
  /\ calls = 0
  /\ state = DefaultState
  /\ \E out \in applyFiltersAndSort(tasks, state) :
       /\ view = out.value
       /\ timers = IF out.threw THEN {} ELSE saveTasks({}, tasks, now)
       /\ log = [args |-> tasks, at |-> now, owed |-> Cardinality(timers)]
  /\ undo = NoUndo

\* the first handlers after startup, and the first write
NextStartup ==
  \/ Tick
  \/ Sleep
  \/ TimerFires
  \/ AddClick
  \/ DeleteClick
  \/ UndoKey

SpecStartup == InitStartup /\ [][NextStartup]_vars

\* nothing happens until the first hide timeout is due; the pending write, due
\* earlier, has been made
Elapse ==
  /\ timers = {}
  /\ undo.hides # {}
  /\ \E d \in undo.hides :
       /\ \A e \in undo.hides : d <= e
       /\ now < d
       /\ now' = d
  /\ UNCHANGED <<tasks, deletedTask, last, prev, before, calls, state, view, stored,
                 timers, log, undo>>

\* a due hide timeout runs: UI.hideUndo()
HideTimerFires ==
  \E d \in undo.hides :
    /\ now >= d
    /\ undo' = hideUndo([undo EXCEPT !.hides = @ \ {d}])
    /\ UNCHANGED <<tasks, deletedTask, now, last, prev, before, calls, state, view,
                   stored, timers, log>>

\* deletes, undos, and the time that lets the notification's timeouts run
NextNotice ==
  \/ Tick
  \/ Sleep
  \/ TimerFires
  \/ Elapse
  \/ HideTimerFires
  \/ DeleteClick
  \/ UndoClick
  \/ UndoKey

SpecNotice == Init /\ [][NextNotice]_vars

\* handlers that ask for a save, and the time that lets the write happen
NextSave ==
  \/ Tick
  \/ Sleep
  \/ TimerFires
  \/ ToggleClick
  \/ NotesBlur

SpecSave == Init /\ [][NextSave]_vars

\* the same with the event loop's promise: the delay of a pending timeout passes,
\* and a timeout that is due runs
SpecSaveFair ==
  /\ Init
  /\ [][NextSave]_vars
  /\ WF_vars(Sleep)
  /\ WF_vars(TimerFires)

\* the handlers that change the collection, on the default list
NextHandlers ==
  \/ Tick
  \/ AddClick
  \/ ToggleClick
  \/ DeleteClick
  \/ EditSave
  \/ ClearClick
  \/ ImportFile
  \/ UndoClick
  \/ UndoKey
  \/ AddSubtaskClick
  \/ ToggleSubtaskClick
  \/ NotesBlur
  \/ DragEnd

SpecHandlers == Init /\ [][NextHandlers]_vars

\* tasks are added and the list is sorted
NextCreate ==
  \/ Tick
  \/ AddClick
  \/ SetSort

SpecCreate == Init /\ [][NextCreate]_vars

\* the list is narrowed and its items are dragged
NextDrag ==
  \/ Search
  \/ SetFilter
  \/ SetCategory
  \/ DragEnd

SpecDrag == InitView /\ [][NextDrag]_vars

\* the calls that look a task up by its id
NextLookup ==
  \/ Tick
  \/ UpdateTask
  \/ ToggleTask
  \/ DeleteTask
  \/ AddSubtask
  \/ ToggleSubtask
  \/ UpdateNotes

SpecLookup == Init /\ [][NextLookup]_vars

GetStatistics ==
  /\ calls < MaxCalls
  /\ Called("getStatistics", Undef, Undef,
            [tasks |-> tasks, deletedTask |-> deletedTask,
             ret |-> getStatistics(tasks, now, Utc)])

\* the calls that change how many tasks there are and how many are completed, and
\* the statistics read
NextStats ==
  \/ Tick
  \/ AddTask
  \/ ToggleTask
  \/ DeleteTask
  \/ ClearCompleted
  \/ ImportTasks
  \/ GetStatistics

SpecStats == Init /\ [][NextStats]_vars

(* ---- the statistics across a midnight that starts a month ---- *)
\* Here the clock reads whole hours.  Local midnight of 1 March is hour 59 * 24
\* minus the zone; the clock runs from a few hours before it to a few hours after.
MarchFirst == 59 * 24
CalendarStart == MarchFirst - 4
CalendarEnd == MarchFirst + 4

\* the hours local time is ahead of UTC on the machines considered
Zones == {-2, 0, 3}

\* a clock in whole hours on a machine `zone` hours ahead of UTC
HourClock(zone) == [hour |-> 1, zone |-> zone]

\* task number i, active, as addTask built it
Plain(i) == NewTask(Obj([text |-> Str(<<"t">>)]), i)

\* the stored collection: tasks completed a week before the midnight, two days
\* before it and an hour before it; a completed task whose completedAt is null
\* and one that has none; an active task; an active task that carries a stamp
CalendarTasks ==
  <<Toggled(Plain(1), MarchFirst - 7 * 24 - 1),
    Toggled(Plain(2), MarchFirst - 2 * 24),
    Toggled(Plain(3), MarchFirst - 1),
    Obj([completed |-> True] @@ Plain(4).o),
    Obj([f \in DOMAIN Plain(5).o \ {"completedAt"} |->
           IF f = "completed" THEN True ELSE Plain(5).o[f]]),
    Plain(6),
    Obj([completedAt |-> IsoStr(MarchFirst)] @@ Plain(7).o)>>

\* startup on the stored collection at some hour
InitCalendar ==
  /\ stored = JsonStringify(Arr(CalendarTasks))
  /\ tasks = constructor(loadTasks(stored))
  /\ deletedTask = Null
  /\ now \in CalendarStart..CalendarEnd
  /\ last = NoCall
  /\ prev = NoCall
  /\ before = [tasks |-> tasks, deletedTask |-> Null]
  /\ calls = 0
  /\ state = DefaultState
  /\ view = tasks
  /\ timers = {}
  /\ log = [args |-> tasks, at |-> now, owed |-> 0]
  /\ undo = NoUndo

\* an hour passes
HourPasses ==
  /\ now < CalendarEnd
  /\ now' = now + 1
  /\ UNCHANGED <<tasks, deletedTask, last, prev, before, calls, state, view, stored,
                 timers, log, undo>>

\* getStatistics() on one of the machines; the zone and the hour are kept with
\* the call
GetStatisticsAt ==
  \E zone \in Zones :
    Called("getStatistics", Undef, [zone |-> zone, at |-> now],
           [tasks |-> tasks, deletedTask |-> deletedTask,
            ret |-> getStatistics(tasks, now, HourClock(zone))])

\* toggleTask on the task completed a week before the midnight or on the active
\* task
ToggleStamped ==
  \E id \in {Num(1), Num(6)} :
    Called("toggleTask", id, Undef, toggleTask(tasks, deletedTask, id, now))

NextCalendar ==
  \/ HourPasses
  \/ ToggleStamped
  \/ GetStatisticsAt

SpecCalendar == InitCalendar /\ [][NextCalendar]_vars

\* the calls that can run between a delete and its undo
NextEdit ==
  \/ Tick
  \/ AddTask
  \/ UpdateTask
  \/ ToggleTask
  \/ DeleteTask
  \/ UndoDelete
  \/ ClearCompleted

SpecEdit == Init /\ [][NextEdit]_vars

\* the calls that bring tasks into the collection, with completion and deletion
NextImport ==
  \/ Tick
  \/ AddTask
  \/ ToggleTask
  \/ DeleteTask
  \/ ImportTasks

SpecImport == Init /\ [][NextImport]_vars

(* ---- properties ---- *)
TaskFields ==
  {"id", "text", "completed", "priority", "category", "dueDate", "tags", "notes",
   "subtasks", "createdAt", "completedAt"}

IsSet(v) == v.k \notin {"null", "undefined"}

\* C1: an undoDelete called right after a successful deleteTask returns the very
\* task that was removed, puts it back at the index it had, and leaves the
\* collection and the statistics counts as they were before the delete.
C1_UndoRestoresDeleted ==
  [][(last.op = "deleteTask" /\ last.ret # Null /\ last'.op = "undoDelete")
       => /\ last'.ret = last.ret.o.task
          /\ tasks'[last.ret.o.index + 1] = last.ret.o.task
          /\ tasks' = before.tasks
          /\ getStatistics(tasks', now, Utc) = getStatistics(before.tasks, now, Utc)]_vars

\* a delete of a task that was not at the front, undone by the next call
C1_Witness ==
  /\ last.op = "undoDelete"
  /\ prev.op = "deleteTask"
  /\ prev.ret # Null
  /\ prev.ret.o.index >= 1
  /\ last.ret = prev.ret.o.task
  /\ Len(tasks) >= 2

\* the step that is the second of two toggleTask calls in a row on one id
SecondToggle ==
  /\ last.op = "toggleTask"
  /\ last.ret # Null
  /\ calls' = calls + 1
  /\ last'.op = "toggleTask"
  /\ last'.id = last.id

\* C2 as stated: two toggleTask calls on an id leave the task's completed and
\* completedAt as they were before the first call.
C2_ToggleTwiceRestores ==
  [][SecondToggle =>
       LET idx == IndexOfId(before.tasks, last.id) + 1
       IN /\ Get(tasks'[idx], "completed") = Get(before.tasks[idx], "completed")
          /\ Get(tasks'[idx], "completedAt") = Get(before.tasks[idx], "completedAt")]_vars

\* C2 amended: two toggleTask calls on an id leave completed as it was; completedAt
\* ends null for a task that was not completed, and holds the time of the second
\* call for a task that was completed.
C2_ToggleTwiceRestoresCompleted ==
  [][SecondToggle =>
       LET idx == IndexOfId(before.tasks, last.id) + 1
           was == Get(before.tasks[idx], "completed")
       IN /\ Get(tasks'[idx], "completed") = was
          /\ Get(tasks'[idx], "completedAt") = IF Truthy(was) THEN IsoStr(now) ELSE Null]_vars

\* a task that was completed, toggled twice in a row
C2_Witness ==
  /\ last.op = "toggleTask"
  /\ prev.op = "toggleTask"
  /\ last.id = prev.id
  /\ last.ret # Null
  /\ Truthy(Get(last.ret, "completed"))

\* C3: every task of the collection has completed true exactly when its
\* completedAt is set.
C3_CompletedIffCompletedAt ==
  \A i \in 1..Len(tasks) :
    Truthy(Get(tasks[i], "completed")) <=> IsSet(Get(tasks[i], "completedAt"))

\* C4: the task addTask creates has an id that no task already in the collection
\* has.
C4_AddedIdIsFresh ==
  last.op = "addTask" =>
    \A i \in 1..Len(before.tasks) :
      ~StrictEq(Get(before.tasks[i], "id"), Get(last.ret, "id"))

\* C5: updateTask leaves the id and the createdAt of the task it matched as they
\* were, whatever the patch holds.
C5_UpdateKeepsIdAndCreatedAt ==
  (last.op = "updateTask" /\ last.ret # Null) =>
    LET idx == IndexOfId(before.tasks, last.id) + 1
    IN /\ Get(tasks[idx], "id") = Get(before.tasks[idx], "id")
       /\ Get(tasks[idx], "createdAt") = Get(before.tasks[idx], "createdAt")

\* the text spells a JSON array
IsSequenceText(text) == text.j = "array"

\* C6: importTasks of a text that does not parse, or that parses to something
\* other than an array, returns false and leaves the collection and the undo
\* buffer as they were.
C6_MalformedImportRejected ==
  (last.op = "importTasks" /\ ~IsSequenceText(last.arg)) =>
    /\ last.ret = False
    /\ tasks = before.tasks
    /\ deletedTask = before.deletedTask

\* a parseable text that is no array, imported over a non-empty collection and a
\* filled undo buffer
C6_Witness ==
  /\ last.op = "importTasks"
  /\ last.arg.j = "object"
  /\ last.ret = False
  /\ Len(tasks) >= 1
  /\ deletedTask # Null

\* C7: importTasks of a text that spells an array returns true and leaves one
\* task per item in the collection, whatever the items are.
C7_SequenceImportSucceeds ==
  (last.op = "importTasks" /\ IsSequenceText(last.arg)) =>
    /\ last.ret = True
    /\ Len(tasks) = Len(last.arg.a)

\* C8: importTasks(exportTasks()) returns true and leaves a collection of the same
\* length and order whose tasks equal the exported ones property by property.
C8_ExportImportRoundTrip ==
  (last.op = "importTasks" /\ last.arg = exportTasks(before.tasks)) =>
    /\ last.ret = True
    /\ Len(tasks) = Len(before.tasks)
    /\ \A i \in 1..Len(before.tasks) : \A f \in TaskFields :
         Get(tasks[i], f) = Get(before.tasks[i], f)

\* C9: a deleteTask that finds the buffer filled leaves in it only the task it
\* removed, with the index that task had; one undoDelete then restores that task
\* and further undoDelete calls restore nothing, so the task deleted earlier
\* stays deleted.
C9_DeleteOverwritesBuffer ==
  (last.op = "deleteTask" /\ last.ret # Null /\ before.deletedTask # Null) =>
    LET idx == IndexOfId(before.tasks, last.id)
        b == before.tasks[idx + 1]
        u1 == undoDelete(tasks, deletedTask)
        u2 == undoDelete(u1.tasks, u1.deletedTask)
    IN /\ deletedTask = [task |-> b, index |-> idx]
       /\ u1.ret = b
       /\ u1.tasks = before.tasks
       /\ u1.deletedTask = Null
       /\ u2.ret = Null
       /\ u2.tasks = u1.tasks
       /\ u2.deletedTask = Null

\* two successful deletes in a row, of different tasks
C9_Witness ==
  /\ last.op = "deleteTask"
  /\ prev.op = "deleteTask"
  /\ last.ret # Null
  /\ prev.ret # Null
  /\ before.deletedTask # Null
  /\ deletedTask.task # before.deletedTask.task

\* C10: undoDelete leaves the buffer empty; on an empty buffer it returns null and
\* leaves the collection as it was, on a filled one it inserts one task; the
\* second of two undoDelete calls in a row inserts nothing.
C10_UndoConsumesBuffer ==
  last.op = "undoDelete" =>
    /\ deletedTask = Null
    /\ IF before.deletedTask = Null
       THEN last.ret = Null /\ tasks = before.tasks
       ELSE last.ret = before.deletedTask.task /\ Len(tasks) = Len(before.tasks) + 1
    /\ prev.op = "undoDelete" => (last.ret = Null /\ tasks = before.tasks)

\* an undoDelete that restored a task, followed by a second undoDelete
C10_Witness ==
  /\ last.op = "undoDelete"
  /\ prev.op = "undoDelete"
  /\ prev.ret # Null
  /\ last.ret = Null
  /\ Len(tasks) >= 1

Min(a, b) == IF a < b THEN a ELSE b

\* C11: whatever ran since the delete, an undoDelete on a filled buffer puts the
\* buffered task at position min(index, length) of the collection, keeps the other
\* tasks in their order and makes the collection one longer.
C11_UndoInsertsAtClampedIndex ==
  (last.op = "undoDelete" /\ before.deletedTask # Null) =>
    LET at == Min(before.deletedTask.index, Len(before.tasks))
    IN /\ Len(tasks) = Len(before.tasks) + 1
       /\ tasks[at + 1] = before.deletedTask.task
       /\ \A i \in 1..Len(before.tasks) :
            before.tasks[i] = tasks[IF i <= at THEN i ELSE i + 1]

\* an undo after clearCompleted shrank the collection below the buffered index
C11_Witness ==
  /\ last.op = "undoDelete"
  /\ prev.op = "clearCompleted"
  /\ before.deletedTask # Null
  /\ before.deletedTask.index > Len(before.tasks)
  /\ tasks[Len(tasks)] = before.deletedTask.task

\* C12: clearCompleted removes every completed task and nothing else, keeps the
\* remaining tasks in the order they had, and leaves the undo buffer as it was.
C12_ClearCompletedKeepsActive ==
  (last.op = "clearCompleted") =>
    /\ deletedTask = before.deletedTask
    /\ \A i \in 1..Len(tasks) : Get(tasks[i], "completed") = False
    /\ \E f \in [1..Len(tasks) -> 1..Len(before.tasks)] :
         /\ \A i \in 1..Len(tasks) : before.tasks[f[i]] = tasks[i]
         /\ \A i, j \in 1..Len(tasks) : i < j => f[i] < f[j]
         /\ \A k \in 1..Len(before.tasks) :
              (\A i \in 1..Len(tasks) : f[i] # k) =>
                Get(before.tasks[k], "completed") = True

\* a clearCompleted that removed a task, kept one, with a task in the undo buffer
C12_Witness ==
  /\ last.op = "clearCompleted"
  /\ deletedTask # Null
  /\ Len(tasks) >= 1
  /\ Len(tasks) < Len(before.tasks)

\* C16: addTask puts the new task at the head of the collection, in front of the
\* tasks that were there; the new task is not completed, has no completedAt, empty
\* notes and no subtasks; the undo buffer is as it was.
C16_AddPrepends ==
  (last.op = "addTask") =>
    /\ tasks = <<last.ret>> \o before.tasks
    /\ Get(last.ret, "completed") = False
    /\ Get(last.ret, "completedAt") = Null
    /\ Get(last.ret, "notes") = EmptyStr
    /\ Get(last.ret, "subtasks") = Arr(<<>>)
    /\ deletedTask = before.deletedTask

\* an addTask on a collection that held tasks, with a task in the undo buffer
C16_Witness ==
  /\ last.op = "addTask"
  /\ Len(before.tasks) >= 1
  /\ before.deletedTask # Null
  /\ tasks[1] = last.ret

\* C13: in every state the statistics satisfy active + completed = total, total is
\* the length of the collection and completed is the number of tasks whose
\* completed field is true.
C13_StatisticsAddUp ==
  LET s == getStatistics(tasks, now, Utc)
  IN /\ s.active + s.completed = s.total
     /\ s.total = Len(tasks)
     /\ s.completed =
          Cardinality({i \in 1..Len(tasks) : Get(tasks[i], "completed") = True})

\* getStatistics read on a collection holding completed and active tasks
C13_Witness ==
  /\ last.op = "getStatistics"
  /\ last.ret.completed >= 1
  /\ last.ret.active >= 1
  /\ last.ret.total = Len(tasks)

\* the calls that name a task, or a task and one of its subtasks
NamesTask(op) ==
  op \in {"updateTask", "toggleTask", "deleteTask", "addSubtask", "toggleSubtask",
          "updateNotes"}

\* C14: updateTask, toggleTask, deleteTask, addSubtask, toggleSubtask and
\* updateNotes called with a task id no task carries, and toggleSubtask called with
\* a subtask id the task does not hold, return null and leave the collection, every
\* task and the undo buffer as they were.
C14_NotFoundChangesNothing ==
  (/\ NamesTask(last.op)
   /\ \/ last.id \notin IdsOf(before.tasks)
      \/ last.op = "toggleSubtask" /\ last.arg \notin SubtaskIdsOf(before.tasks)) =>
    /\ last.ret = Null
    /\ tasks = before.tasks
    /\ deletedTask = before.deletedTask

\* a toggleSubtask that names a task holding a subtask, with an id it does not hold
C14_Witness ==
  /\ last.op = "toggleSubtask"
  /\ last.id \in IdsOf(before.tasks)
  /\ SubtaskIdsOf(before.tasks) # {}
  /\ last.arg \notin SubtaskIdsOf(before.tasks)
  /\ last.ret = Null
  /\ tasks = before.tasks

\* addSubtask with an absent task id, a task waiting in the undo buffer
C14_WitnessAbsentTask ==
  /\ last.op = "addSubtask"
  /\ last.id = AbsentId
  /\ before.deletedTask # Null
  /\ last.ret = Null

\* the text of a call is empty once trimmed
EmptyOnceTrimmed(text) == IsString(text) /\ ~Truthy(Trim(text))

\* C15: addTask called with a text that is empty once trimmed, and addSubtask
\* called with such a text, return null and leave the collection as it was.
C15_EmptyTextRejected ==
  (\/ last.op = "addTask" /\ EmptyOnceTrimmed(Get(last.arg, "text"))
   \/ last.op = "addSubtask" /\ EmptyOnceTrimmed(last.arg)) =>
    /\ last.ret = Null
    /\ tasks = before.tasks
    /\ deletedTask = before.deletedTask

\* C17: no call of the store ends in an uncaught exception, whatever the collection
\* and the arguments.
C17_NoCallThrows == last.ret # Thrown

\* chars holds query at some offset, letter case aside
HoldsIgnoringCase(chars, query) ==
  \E k \in 0..(Len(chars) - Len(query)) :
    \A j \in 1..Len(query) : LowerChar(chars[k + j]) = LowerChar(query[j])

\* the task passes the status filter, the category filter and the search of `state`
Passes(t) ==
  /\ state.currentFilter = active => Get(t, "completed") = False
  /\ state.currentFilter = completed => Get(t, "completed") = True
  /\ state.currentCategory # all => Get(t, "category") = state.currentCategory
  /\ \/ state.searchQuery = EmptyStr
     \/ HoldsIgnoringCase(Get(t, "text").s, state.searchQuery.s)
     \/ HoldsIgnoringCase(Get(t, "notes").s, state.searchQuery.s)
     \/ \E i \in 1..Len(Get(t, "tags").a) :
          HoldsIgnoringCase(Get(t, "tags").a[i].s, state.searchQuery.s)

\* C18: the rendered list holds each task of the collection that passes the status
\* filter, the category filter and the search (the query is found, letter case
\* aside, in the text, the notes or a tag; an empty query passes every task)
\* exactly once, and nothing else.
C18_ViewHoldsThePassingTasks ==
  /\ \A i \in 1..Len(tasks) :
       Cardinality({j \in 1..Len(view) : view[j] = tasks[i]})
         = IF Passes(tasks[i]) THEN 1 ELSE 0
  /\ \A j \in 1..Len(view) : \E i \in 1..Len(tasks) : tasks[i] = view[j]

\* a search in mixed case under two filters that keeps two tasks of three
C18_Witness ==
  /\ state.searchQuery = Str(<<"a", "B">>)
  /\ state.currentFilter = active
  /\ state.currentCategory = work
  /\ Len(tasks) = 3
  /\ Len(view) = 2
  /\ \E i \in 1..2 : Get(view[i], "text") = Str(<<"d">>)

\* where the task stands in the collection
PlaceOf(t) == CHOOSE i \in 1..Len(tasks) : tasks[i] = t

PriorityRank(t) ==
  CASE Get(t, "priority") = high -> 3
    [] Get(t, "priority") = medium -> 2
    [] Get(t, "priority") = low -> 1

\* C19: under the sort key priority every high task stands before every medium
\* task and every medium task before every low task, and tasks of one priority
\* stand in the order they have in the collection.
C19_PrioritySort ==
  (state.currentSort = priority) =>
    \A i, j \in 1..Len(view) :
      i < j =>
        /\ PriorityRank(view[i]) >= PriorityRank(view[j])
        /\ PriorityRank(view[i]) = PriorityRank(view[j])
             => PlaceOf(view[i]) < PlaceOf(view[j])

\* a priority sort that moved a low task from the front behind two high tasks
C19_Witness ==
  /\ state.currentSort = priority
  /\ Len(view) = 3
  /\ Get(tasks[1], "priority") = low
  /\ Get(view[1], "priority") = high
  /\ Get(view[2], "priority") = high
  /\ view[3] = tasks[1]

HasDueDate(t) == Get(t, "dueDate").k = "isodate"

\* C20: under the sort key duedate every task with a due date stands before every
\* task without one, and the tasks with a due date stand in ascending order of it,
\* whatever the order of the collection.
C20_DueDateSort ==
  (state.currentSort = duedate) =>
    \A i, j \in 1..Len(view) :
      i < j =>
        /\ HasDueDate(view[j]) => HasDueDate(view[i])
        /\ HasDueDate(view[j]) => Get(view[i], "dueDate").n <= Get(view[j], "dueDate").n

\* a duedate sort of a collection that had a task without due date in front and the
\* later of two due dates before the earlier
C20_Witness ==
  /\ state.currentSort = duedate
  /\ Len(view) = 3
  /\ ~HasDueDate(tasks[1])
  /\ HasDueDate(tasks[2]) /\ HasDueDate(tasks[3])
  /\ Get(tasks[2], "dueDate").n > Get(tasks[3], "dueDate").n
  /\ view = <<tasks[3], tasks[2], tasks[1]>>

\* the two tasks are tied under the sort key
Tied(key, a, b) ==
  CASE key \in {dateDesc, dateAsc} -> Get(a, "createdAt") = Get(b, "createdAt")
    [] key = priority -> Get(a, "priority") = Get(b, "priority")
    [] key = alphabetical -> Get(a, "text") = Get(b, "text")
    [] key = duedate ->
         \/ ~HasDueDate(a) /\ ~HasDueDate(b)
         \/ HasDueDate(a) /\ HasDueDate(b) /\ Get(a, "dueDate") = Get(b, "dueDate")
    [] key = category -> Get(a, "category") = Get(b, "category")

\* C21: under every sort key two tasks that are tied under the key (two tasks
\* without due date under duedate among them) stand in the rendered list in the
\* order they have in the collection.
C21_SortIsStable ==
  \A i, j \in 1..Len(view) :
    (i < j /\ Tied(state.currentSort, view[i], view[j])) =>
      PlaceOf(view[i]) < PlaceOf(view[j])

\* where the task stands in the rendered list (0 when it is not there)
Shown(t) ==
  IF \E i \in 1..Len(view) : view[i] = t
  THEN CHOOSE i \in 1..Len(view) : view[i] = t
  ELSE 0

\* the last two handlers each added a task, and the two tasks can be told apart
TwoAdded ==
  /\ prev.op = "addTask"
  /\ last.op = "addTask"
  /\ prev.ret # last.ret

\* C22: with sort key date-asc the list shows two tasks created by add one after
\* the other, within the same clock tick or not, with the task created first before
\* the task created second.
C22_DateAscIsCreationOrder ==
  (state.currentSort = dateAsc /\ TwoAdded) => Shown(prev.ret) < Shown(last.ret)

\* projecting a projection of ts with the same parameters gives it back
Idempotent(ts, st) ==
  \A out \in applyFiltersAndSort(ts, st) :
    ~out.threw =>
      \A again \in applyFiltersAndSort(out.value, st) :
        ~again.threw /\ again.value = out.value

\* C23: the projection is idempotent and leaves its input alone: projecting the
\* projection again with the same parameters gives the same list, element by
\* element, and the collection is the same, content and order, after a render (a
\* call of the projection and of the statistics) as before it.
C23_ProjectIsPure ==
  [][tasks' = tasks /\ Idempotent(tasks', state')]_vars

\* the completed tasks whose completedAt is a date at or after `start`
DoneSince(start) ==
  {i \in 1..Len(tasks) :
     /\ Get(tasks[i], "completed") = True
     /\ Get(tasks[i], "completedAt").k = "isodate"
     /\ Get(tasks[i], "completedAt").n >= start}

\* the hour the local day of hour `at` began at, `zone` hours ahead of UTC: the last
\* hour up to `at` at which the local clock showed 0:00
MidnightBefore(at, zone) ==
  CHOOSE h \in (at - 23)..at : (h + zone) % 24 = 0

\* the hour the local month of hour `at` began at: the last local midnight up to
\* `at` that opened a first of the month
FirstBefore(at, zone) ==
  LET firsts == {DaysBefore[m] * 24 - zone : m \in 1..12}
  IN CHOOSE h \in firsts : h <= at /\ \A g \in firsts : g <= at => g <= h

\* C24: the time windows of the statistics: todayCompleted counts exactly the
\* completed tasks whose completedAt is at or after local midnight of the current
\* day, weekCompleted those whose completedAt is at or after now minus 7 x 24
\* hours, monthCompleted those whose completedAt is at or after the first of the
\* current month; a completed task without completedAt is counted in none of the
\* three, and each of the three is at most `completed`.
C24_StatisticsWindows ==
  last.op = "getStatistics" =>
    LET s == last.ret
        at == last.arg.at
        zone == last.arg.zone
    IN /\ s.todayCompleted = Cardinality(DoneSince(MidnightBefore(at, zone)))
       /\ s.weekCompleted = Cardinality(DoneSince(at - 7 * 24))
       /\ s.monthCompleted = Cardinality(DoneSince(FirstBefore(at, zone)))
       /\ s.todayCompleted <= s.completed
       /\ s.weekCompleted <= s.completed
       /\ s.monthCompleted <= s.completed

\* statistics read four hours after local midnight of 1 March, three hours ahead
\* of UTC: the task completed a week before the midnight has left the week, the one
\* completed two days before is in the week alone, the one completed an hour before
\* UTC midnight is in all three windows, and the completed tasks without a date in
\* completedAt are in none
C24_Witness ==
  /\ last.op = "getStatistics"
  /\ last.arg = [zone |-> 3, at |-> MarchFirst + 1]
  /\ tasks = CalendarTasks
  /\ last.ret.completed = 5
  /\ last.ret.todayCompleted = 1
  /\ last.ret.weekCompleted = 2
  /\ last.ret.monthCompleted = 1

\* a debounced write ran in this step
WriteRan == log'.owed < log.owed

NoStoredSequence ==
  \/ stored = Null
  \/ stored = Garbage
  \/ stored.j # "array"

\* C27: at startup, when the stored text is missing, cannot be parsed or parses
\* to a value that is no sequence, the store is constructed with an empty
\* collection and an empty undo buffer, and loading raises no error.
C27_StartupOnCorruptStorage ==
  (calls = 0 /\ NoStoredSequence) =>
    /\ tasks = <<>>
    /\ deletedTask = Null
    /\ loadTasks(stored) # Thrown

\* startup on a JSON text that holds an object: the collection is empty, the list
\* is empty and the first save is pending
C27_Witness ==
  /\ calls = 0
  /\ stored = JsonStringify(Obj([tasks |-> Arr(<<>>)]))
  /\ tasks = <<>>
  /\ view = <<>>
  /\ timers # {}

\* how many times t stands in seq
CountIn(seq, t) == Cardinality({i \in 1..Len(seq) : seq[i] = t})

\* the two sequences hold the same tasks, each as many times
SameTasks(a, b) ==
  /\ Len(a) = Len(b)
  /\ \A i \in 1..Len(a) : CountIn(a, a[i]) = CountIn(b, a[i])

\* C28: a drag reorder only permutes the collection: after reorderModelFromDOM
\* the collection holds the tasks it held before, none dropped and none
\* duplicated, whatever status filter, category filter or search query is active.
C28_DragOnlyPermutes ==
  last.op = "reorderModelFromDOM" => SameTasks(tasks, before.tasks)

\* the tasks of seq carry pairwise distinct ids
DistinctIds(seq) ==
  \A i, j \in 1..Len(seq) : i # j => Get(seq[i], "id") # Get(seq[j], "id")

\* the ids of seq are numbers
NumericIds(seq) == \A i \in 1..Len(seq) : Get(seq[i], "id").k = "number"

\* a task of the stored collection was deleted, then a text with pairwise distinct
\* numeric ids was imported, then the delete was undone
DeleteImportUndo ==
  /\ calls = 3
  /\ last.op = "undoDelete"
  /\ prev.op = "importTasks"
  /\ prev.ret = True
  /\ before.deletedTask # Null
  /\ DistinctIds(before.tasks)
  /\ NumericIds(before.tasks)

\* C29: task ids stay pairwise distinct across import and undo: after a delete, a
\* successful import of tasks with pairwise distinct numeric ids and an undoDelete,
\* the collection still carries pairwise distinct ids.
C29_IdsDistinctAcrossImportAndUndo ==
  DeleteImportUndo => DistinctIds(tasks)

HiddenByTimer == undo.shown /\ ~undo'.shown /\ undo'.hides # undo.hides

\* C31: the undo notification shown for a delete stays visible for the full 5
\* seconds unless the user undoes: a hide timeout, that of an earlier delete
\* included, does not take the notification away before 5 seconds have passed
\* since it was shown, while the deleted task is still in the undo buffer.
C31_UndoNoticeStaysFiveSeconds ==
  [][(HiddenByTimer /\ deletedTask # Null) => now >= undo.since + HideDelay]_vars

====
